---- MODULE Spec2Model ----
(***************************************************************************)
(* The flows of the 31Third integrator:                                    *)
(*   batch   : src/src/basket-swap.js, executeWalletRebalancing            *)
(*   single  : src/src/single-swap.js, swapWithThirtyOneThird              *)
(*   adapter : src/src/single-swap.js, ThirtyOneThirdAdapter (it asks for  *)
(*             a quote and prepares a transaction object, no more)         *)
(* together with the blockchain node they talk to (allowances, the         *)
(* signer's nonce sequence, the transaction pool and mined receipts).      *)
(*                                                                         *)
(* One action is one continuation of the JavaScript program: everything    *)
(* the code runs between the completion of one awaited I/O call and the    *)
(* start of the next.  Both scripts end in process.exit, so once the       *)
(* entry point settles nothing of the program runs any more; the chain     *)
(* keeps mining whatever was broadcast.                                    *)
(***************************************************************************)
EXTENDS Integers, Sequences, FiniteSets, TLC

(* ------------------------------ bounds -------------------------------- *)
\* longest requiredAllowances list the plan service answers with
MaxReqs == 2
\* the neededAllowance of a well-formed requirement of the batch plan
Needed == 1
\* on-chain gas estimates range over 1..MaxGasEstimate (and one realistic value)
MaxGasEstimate == 2

(* ------------------------- program constants -------------------------- *)
\* ethers.constants.MaxUint256, scaled to 2^24 - 1 (no arithmetic is done on it)
MaxUint256 == 16777215
\* gasLimit override of every approval transaction
ApprovalGasLimit == 100000
\* batch flow: gas limit when estimateGas fails
DefaultGasLimit == 3000000
\* batch flow: buffer applied to a successful estimate, mul(120).div(100)
BufferMul == 120
\* batch flow: increase applied for the retry, mul(150).div(100)
RetryMul == 150
\* the divisor of both
PercentDiv == 100
\* single flow: the fixed gas limit and the fixed gas limit of the retry
FixedGasLimit == 500000
HigherGasLimit == 750000
\* single flow: parseUnits("1", 6), the amount sold and the allowance needed
SellAmount == 1000000
\* confirmations every wait() asks for
Confirmations == 1

(* ------------------------------ the data ------------------------------ *)
Undefined == "undefined"
\* the tokens the batch flow sells (baseEntries); the single flow sells USDT
Tokens == {"GRT", "USDT"}
FromToken == "USDT"
\* allowanceTarget of the batch plan / transaction.to of the quote
Spenders == {"router"}
TxHandler == "router"
TxData == "calldata"
\* what provider.getGasPrice() answers, and the gas price a quote may carry
NetworkGasPrice == 30
QuoteGasPrice == 45
\* what provider.getNetwork() answers
NetworkChainId == 1

\* An error message is a sequence of words; String.prototype.includes is the
\* search for a contiguous run of words.
Includes(msg, needle) ==
    \E k \in 1..(Len(msg) - Len(needle) + 1) :
        SubSeq(msg, k, k + Len(needle) - 1) = needle

MsgNonceTooLow == <<"nonce", "too", "low">>
MsgUnderpriced == <<"replacement", "transaction", "underpriced">>
MsgFunds == <<"insufficient", "funds", "for", "gas">>
MsgBlockGas == <<"exceeds", "block", "gas", "limit">>
MsgUnpredictable == <<"cannot", "estimate", "gas", "UNPREDICTABLE_GAS_LIMIT">>
MsgTxFailed == <<"transaction", "failed">>
MsgNetwork == <<"could", "not", "detect", "network">>
MsgApi == <<"31Third", "API", "error">>
MsgIncomplete == <<"Incomplete", "allowance", "data">>
MsgTypeError == <<"Cannot", "read", "properties", "of", "undefined">>
MsgInvalidAddress == <<"invalid", "address", "or", "ENS", "name">>
MsgInvalidQuote == <<"Invalid", "quote", "data", "Missing", "transaction", "information">>

\* what a failing signer, broadcast or confirmation wait may report: one message
\* of each kind the catch block tells apart
SubmitMsgs == {MsgFunds, MsgBlockGas, MsgUnpredictable}

\* mutant: the catch block looks for the word "gas" alone
MutIsGasErrorAnyGas(msg) == Includes(msg, <<"gas">>)

\* the test of the catch block
IsGasError(msg) ==
    Includes(msg, <<"gas", "limit">>) \/ Includes(msg, <<"UNPREDICTABLE_GAS_LIMIT">>)

NoError == [stage |-> "none", entry |-> 0, attempt |-> 0, msg |-> <<>>]
Err(stage, entry, attempt, msg) ==
    [stage |-> stage, entry |-> entry, attempt |-> attempt, msg |-> msg]

(* An entry of requiredAllowances.  token = FALSE: the entry has no token  *)
(* object; address = Undefined: the token object has no address;           *)
(* neededAllowance = 0: absent (or any other falsy value).                 *)
WellFormedEntries ==
    [token : {TRUE}, address : Tokens, allowanceTarget : Spenders,
     neededAllowance : {Needed}]
SomeEntry == [token |-> TRUE, address |-> "GRT", allowanceTarget |-> "router",
              neededAllowance |-> Needed]
MalformedEntries ==
    { [SomeEntry EXCEPT !.token = FALSE, !.address = Undefined],
      [SomeEntry EXCEPT !.address = Undefined],
      [SomeEntry EXCEPT !.allowanceTarget = Undefined],
      [SomeEntry EXCEPT !.neededAllowance = 0] }
Entries == WellFormedEntries \cup MalformedEntries

SeqsUpTo(S, n) == UNION { [1..k -> S] : k \in 0..n }

(* What the plan service answers.  transaction: the quote has a            *)
(* transaction object (single flow); to / data: txHandler / txData of the  *)
(* batch plan, transaction.to / transaction.data of the quote; gasPrice: 0 *)
(* when the answer carries none.                                           *)
BatchPlans ==
    [transaction : {TRUE}, to : BOOLEAN, data : BOOLEAN, gasPrice : {0, QuoteGasPrice},
     hasAllowances : {TRUE}, requiredAllowances : SeqsUpTo(Entries, MaxReqs)]
    \cup
    [transaction : {TRUE}, to : BOOLEAN, data : BOOLEAN, gasPrice : {0, QuoteGasPrice},
     hasAllowances : {FALSE}, requiredAllowances : {<<>>}]
SinglePlans ==
    [transaction : BOOLEAN, to : BOOLEAN, data : BOOLEAN, gasPrice : {0, QuoteGasPrice},
     hasAllowances : {FALSE}, requiredAllowances : {<<>>}]
NoPlan == [transaction |-> FALSE, to |-> FALSE, data |-> FALSE, gasPrice |-> 0,
           hasAllowances |-> FALSE, requiredAllowances |-> <<>>]

VARIABLES
    flow,         \* "batch", "single" or "adapter"
    pc,           \* the awaited call the entry point is suspended on
    plan,         \* the answer of the plan service
    reqs,         \* the requirements handed to checkAndSetAllowance, in order
    task,         \* per requirement: the position of its checkAndSetAllowance
    allowance,    \* chain: allowance of the signer per <<token, spender>>
    mined,        \* chain: transactions of the signer mined so far ("latest" count)
    pool,         \* chain: transactions broadcast and not yet mined
    receipts,     \* chain: mined transactions with their status
    transaction,  \* the object `transaction` the main flow signs
    attempt,      \* 1 inside the try block, 2 inside the retry of the catch block
    approvals,    \* log: approval transactions signed, by entry
    signCalls,    \* log: calls of wallet.signTransaction of the main transaction
    sendCalls,    \* log: calls of provider.sendTransaction of the main transaction
    estimate,     \* log: what estimateGas answered (0: failed or not called)
    caught,       \* log: the error the catch block received
    apiError,     \* log: the error axios raised for the plan / quote request
    reconciled,   \* what the awaited reconciliation call resolved with
    outcome       \* how the entry point settled

vars == <<flow, pc, plan, reqs, task, allowance, mined, pool, receipts, transaction,
          attempt, approvals, signCalls, sendCalls, estimate, caught, apiError,
          reconciled, outcome>>

chain == <<allowance, mined, pool, receipts>>
mainLog == <<signCalls, sendCalls, estimate, caught>>

\* error.response?.data and error.message of the error axios raises; data is
\* <<>> when there is no response or the response has an empty body
NoApiError == [response |-> FALSE, data |-> <<>>, message |-> <<>>]
ApiErrors ==
    { [response |-> TRUE, data |-> <<"invalid", "api", "key">>,
       message |-> <<"Request", "failed", "with", "status", "code", "401">>],
      [response |-> TRUE, data |-> <<>>,
       message |-> <<"Request", "failed", "with", "status", "code", "500">>],
      [response |-> FALSE, data |-> <<>>, message |-> <<"connect", "ECONNREFUSED">>] }

\* the value a promise of the reconciliation resolved with
NotResolved == [kind |-> "pending", value |-> 0]
ResolvedUndefined == [kind |-> "undefined", value |-> 0]

NoTransaction == [to |-> Undefined, data |-> Undefined, value |-> 0, gasLimit |-> 0,
                  gasPrice |-> 0, nonce |-> 0, chainId |-> 0]
NoOutcome == [kind |-> "none", error |-> NoError, tag |-> <<"none", 0>>]
Returned(tag) == [kind |-> "receipt", error |-> NoError, tag |-> tag]
ReturnedNothing == [kind |-> "undefined", error |-> NoError, tag |-> <<"none", 0>>]
Thrown(e) == [kind |-> "error", error |-> e, tag |-> <<"none", 0>>]
\* the adapter hands back a transaction object, not a receipt
Prepared == [kind |-> "transaction", error |-> NoError, tag |-> <<"none", 0>>]

\* The allowances the signer has granted before the run: none, one unit less
\* than the flow needs, what it needs, or the maximum of an earlier run.
InitialAllowances(f) ==
    IF f = "batch"
    THEN [Tokens \X Spenders -> {0, Needed - 1, Needed, MaxUint256}]
    ELSE IF f = "single"
    THEN { [k \in Tokens \X Spenders |-> IF k[1] = FromToken THEN a ELSE 0] :
             a \in {0, SellAmount - 1, SellAmount, MaxUint256} }
    ELSE { [k \in Tokens \X Spenders |-> 0] }

Init ==
    /\ flow \in {"batch", "single", "adapter"}
    /\ pc = "request"
    /\ plan = NoPlan
    /\ reqs = <<>>
    /\ task = <<>>
    /\ allowance \in InitialAllowances(flow)
    /\ mined = 0
    /\ pool = {}
    /\ receipts = {}
    /\ transaction = NoTransaction
    /\ attempt = 1
    /\ approvals = {}
    /\ signCalls = <<>>
    /\ sendCalls = <<>>
    /\ estimate = 0
    /\ caught = NoError
    /\ apiError = NoApiError
    /\ reconciled = NotResolved
    /\ outcome = NoOutcome

(* ------------------------------ the chain ----------------------------- *)
\* provider.getTransactionCount(address, "pending"): the mined transactions and
\* the pooled ones that follow them without a gap
RECURSIVE PendingFrom(_)
PendingFrom(n) ==
    IF \E t \in pool : t.nonce = n THEN PendingFrom(n + 1) ELSE n
PendingCount == PendingFrom(mined)

\* The node takes a raw transaction into its pool unless its nonce is used up or
\* a pooled transaction of the same nonce (and the same gas price) is in its way.
NodeVerdict(tx) ==
    IF tx.nonce < mined THEN MsgNonceTooLow
    ELSE IF \E t \in pool : t.nonce = tx.nonce THEN MsgUnderpriced
    ELSE <<>>

\* mutant: the approval is for the needed amount
MutApproveTxNeeded(i, n) ==
    [tag |-> <<"approve", i>>, nonce |-> n, to |-> reqs[i].address,
     spender |-> reqs[i].allowanceTarget, amount |-> reqs[i].neededAllowance,
     gasLimit |-> ApprovalGasLimit, gasPrice |-> NetworkGasPrice]

\* mutant: the approval revokes, approve(spender, 0)
MutApproveTxRevoke(i, n) ==
    [tag |-> <<"approve", i>>, nonce |-> n, to |-> reqs[i].address,
     spender |-> reqs[i].allowanceTarget, amount |-> 0,
     gasLimit |-> ApprovalGasLimit, gasPrice |-> NetworkGasPrice]

ApproveTx(i, n) ==
    [tag |-> <<"approve", i>>, nonce |-> n, to |-> reqs[i].address,
     spender |-> reqs[i].allowanceTarget, amount |-> MaxUint256,
     gasLimit |-> ApprovalGasLimit, gasPrice |-> NetworkGasPrice]

MainTx(k) ==
    [tag |-> <<"main", k>>, nonce |-> transaction.nonce, to |-> transaction.to,
     spender |-> Undefined, amount |-> 0,
     gasLimit |-> transaction.gasLimit, gasPrice |-> transaction.gasPrice]

\* the confirmations of a mined transaction: its own block and those after it
\* (every block of the model holds one transaction of the signer)
ConfirmationsOf(r) == mined - r.block + 1

\* A block includes the pooled transaction whose nonce is next; an approval that
\* succeeds sets the allowance, a reverted transaction only uses up the nonce.
Mine ==
    \E t \in pool, status \in {"success", "reverted"} :
        /\ t.nonce = mined
        /\ mined' = mined + 1
        /\ pool' = pool \ {t}
        /\ receipts' = receipts \cup {[tag |-> t.tag, nonce |-> t.nonce, status |-> status,
                                       block |-> mined + 1]}
        /\ allowance' = IF t.tag[1] = "approve" /\ status = "success"
                        THEN [allowance EXCEPT ![<<t.to, t.spender>>] = t.amount]
                        ELSE allowance
        /\ UNCHANGED <<flow, apiError, reconciled, pc, plan, reqs, task, transaction,
                       attempt, approvals, mainLog, outcome>>

(* ---------------------------- entry point ----------------------------- *)
\* The entry point settles; the script's then/catch handler calls process.exit.
Exit(o) ==
    /\ pc' = "exited"
    /\ outcome' = o

\* mutant: the message of the transport error is reported, not the body
MutApiErrorMessageTransport(error) == MsgApi \o error.message

\* `31Third API error: ${JSON.stringify(error.response?.data || error.message)}`
ApiErrorMessage(error) ==
    MsgApi \o (IF error.response /\ error.data # <<>> THEN error.data ELSE error.message)

\* requestWalletRebalancing / getSwapQuote: the HTTP call fails or is rejected;
\* the catch block throws a new error with the service's answer in its message.
ServiceError ==
    /\ pc = "request"
    /\ \E error \in ApiErrors :
        /\ apiError' = error
        /\ Exit(Thrown(Err("service", 0, 0, ApiErrorMessage(error))))
    /\ UNCHANGED <<flow, reconciled, plan, reqs, task, chain, transaction, attempt,
                   approvals, mainLog>>

\* The callback of requiredAllowances.map, up to its call of checkAndSetAllowance:
\* what reading the three properties of an entry and testing them gives.
ValidateEntry(e) ==
    IF ~e.token THEN MsgTypeError
    ELSE IF e.address = Undefined \/ e.allowanceTarget = Undefined \/ e.neededAllowance = 0
         THEN MsgIncomplete
         ELSE <<>>

\* checkAndSetAllowance is entered: the allowance read is under way
\* (result: what checkAndSetAllowance returned, "true" after an approval and
\* "false" when the allowance was sufficient)
StartedTask ==
    [pc |-> "allowance", seen |-> 0, nonce |-> 0, result |-> "none", error |-> NoError]
FailedTask(e) ==
    [pc |-> "failed", seen |-> 0, nonce |-> 0, result |-> "none", error |-> e]

\* mutant: the entries are validated in a pass of their own before the map, and
\* with a malformed entry in the list no checkAndSetAllowance is called
MutMapEntriesUpfront(rs) ==
    [i \in 1..Len(rs) |->
        IF ValidateEntry(rs[i]) # <<>>
        THEN FailedTask(Err("validate", i, 0, ValidateEntry(rs[i])))
        ELSE IF \E j \in 1..Len(rs) : ValidateEntry(rs[j]) # <<>>
             THEN [StartedTask EXCEPT !.pc = "idle"]
             ELSE StartedTask]

\* The promises requiredAllowances.map returns: a malformed entry's is rejected
\* on the spot, a well-formed entry's has started its allowance read.
MapEntries(rs) ==
    [i \in 1..Len(rs) |->
        IF ValidateEntry(rs[i]) = <<>> THEN StartedTask
        ELSE FailedTask(Err("validate", i, 0, ValidateEntry(rs[i])))]

\* Promise.all over promises of which some are rejected already: the rejection
\* of the first of them in list order is the one it reports.
FirstRejected(ts) ==
    CHOOSE i \in 1..Len(ts) :
        ts[i].pc = "failed" /\ \A j \in 1..(i - 1) : ts[j].pc # "failed"

\* The object tx is built after the allowances: the gas price is read from the
\* node (batch: always; single: when the quote carries none).
AfterAllowances ==
    IF flow = "single" /\ plan.gasPrice # 0 THEN "nonce" ELSE "gasPrice"

\* executeWalletRebalancing, from the plan's arrival to the first awaited call
\* after it: the check of txHandler / txData, then handleRequiredAllowances up
\* to Promise.all.
PlanReceived ==
    /\ pc = "request"
    /\ flow = "batch"
    /\ \E p \in BatchPlans :
        /\ plan' = p
        /\ IF ~p.to \/ ~p.data
           THEN /\ Exit(ReturnedNothing)
                /\ UNCHANGED <<reqs, task, reconciled>>
           ELSE IF ~p.hasAllowances \/ Len(p.requiredAllowances) = 0
           THEN /\ pc' = "gasPrice"
                /\ reconciled' = ResolvedUndefined
                /\ UNCHANGED <<reqs, task, outcome>>
           ELSE /\ reqs' = p.requiredAllowances
                /\ task' = MapEntries(p.requiredAllowances)
                /\ UNCHANGED reconciled
                /\ IF \E i \in 1..Len(task') : task'[i].pc = "failed"
                   THEN Exit(Thrown(task'[FirstRejected(task')].error))
                   ELSE pc' = "joining" /\ UNCHANGED outcome
    /\ UNCHANGED <<flow, apiError, chain, transaction, attempt, approvals, mainLog>>

\* swapWithThirtyOneThird, from the quote's arrival to the allowance read of
\* checkAndSetAllowance(fromTokenAddress, quoteData.transaction.to, amount).
\* Without a transaction object, reading transaction.to throws; without a `to`
\* the contract call is refused for its spender argument before any request.
QuoteRequirement(p) ==
    [token |-> TRUE, address |-> FromToken,
     allowanceTarget |-> IF p.to THEN TxHandler ELSE Undefined,
     neededAllowance |-> SellAmount]

QuoteReceived ==
    /\ pc = "request"
    /\ flow = "single"
    /\ \E p \in SinglePlans :
        /\ plan' = p
        /\ IF ~p.transaction
           THEN /\ Exit(Thrown(Err("quote", 0, 0, MsgTypeError)))
                /\ UNCHANGED <<reqs, task>>
           ELSE /\ reqs' = <<QuoteRequirement(p)>>
                /\ IF ~p.to
                   THEN /\ task' = <<FailedTask(Err("allowance", 1, 0, MsgInvalidAddress))>>
                        /\ Exit(Thrown(Err("allowance", 1, 0, MsgInvalidAddress)))
                   ELSE /\ task' = <<StartedTask>>
                        /\ pc' = "joining"
                        /\ UNCHANGED outcome
    /\ UNCHANGED <<flow, apiError, reconciled, chain, transaction, attempt, approvals, mainLog>>

(* ------------------------------ adapter ------------------------------- *)
\* ThirtyOneThirdAdapter.prepareTransaction: the fields of quoteData.transaction
\* are copied as they are, absent ones too (the quotes of the model carry no
\* value and no gasLimit)
prepareTransaction(quoteData) ==
    [NoTransaction EXCEPT !.to = IF quoteData.to THEN TxHandler ELSE Undefined,
                          !.data = IF quoteData.data THEN TxData ELSE Undefined,
                          !.gasPrice = quoteData.gasPrice]

\* The quote arrives at the adapter's caller, which hands it to
\* prepareTransaction: a quote without a transaction object is refused.
AdapterQuoteReceived ==
    /\ pc = "request"
    /\ flow = "adapter"
    /\ \E p \in SinglePlans :
        /\ plan' = p
        /\ IF ~p.transaction
           THEN /\ Exit(Thrown(Err("prepare", 0, 0, MsgInvalidQuote)))
                /\ UNCHANGED transaction
           ELSE /\ transaction' = prepareTransaction(p)
                /\ Exit(Prepared)
    /\ UNCHANGED <<flow, apiError, reconciled, reqs, task, chain, attempt, approvals,
                   mainLog>>

(* ------------------------ checkAndSetAllowance ------------------------ *)
\* Task i returns: Promise.all resolves once every task has returned, and the
\* entry point goes on to build tx.
\* mutant: the tasks are joined with Promise.race, the first return resolves it
MutTaskReturnsRace(i, t) ==
    /\ task' = [task EXCEPT ![i] = t]
    /\ pc' = AfterAllowances
    /\ reconciled' = ResolvedUndefined
    /\ UNCHANGED outcome

TaskReturns(i, t) ==
    /\ task' = [task EXCEPT ![i] = t]
    /\ IF \A j \in 1..Len(task) : j # i => task[j].pc = "done"
       THEN pc' = AfterAllowances /\ reconciled' = ResolvedUndefined
       ELSE UNCHANGED <<pc, reconciled>>
    /\ UNCHANGED outcome

\* mutant: the tasks are joined with allSettled, a task's error is dropped
MutTaskThrowsSettled(i, e) ==
    /\ task' = [task EXCEPT ![i].pc = "failed", ![i].error = e]
    /\ IF \A j \in 1..Len(task) : j # i => task[j].pc \in {"done", "failed"}
       THEN pc' = AfterAllowances /\ reconciled' = ResolvedUndefined
       ELSE UNCHANGED <<pc, reconciled>>
    /\ UNCHANGED outcome

\* Task i throws: Promise.all rejects with its error, the entry point rethrows.
TaskThrows(i, e) ==
    /\ task' = [task EXCEPT ![i].pc = "failed", ![i].error = e]
    /\ Exit(Thrown(e))
    /\ UNCHANGED reconciled

\* mutant: lte in place of lt
MutNeedsApprovalLte(currentAllowance, amount) == currentAllowance <= amount

\* mutant: the comparison is the wrong way round, gt in place of lt
MutNeedsApprovalGt(currentAllowance, amount) == currentAllowance > amount

\* currentAllowance.lt(amount)
NeedsApproval(currentAllowance, amount) == currentAllowance < amount

\* tokenContract.allowance(wallet.address, spenderAddress) answers
AllowanceRead(i) ==
    /\ pc = "joining"
    /\ task[i].pc = "allowance"
    /\ \/ LET cur == allowance[<<reqs[i].address, reqs[i].allowanceTarget>>] IN
          IF NeedsApproval(cur, reqs[i].neededAllowance)
          THEN /\ task' = [task EXCEPT ![i].pc = "gasPrice", ![i].seen = cur]
               /\ UNCHANGED <<pc, outcome, reconciled>>
          ELSE TaskReturns(i, [task[i] EXCEPT !.pc = "done", !.seen = cur, !.result = "false"])
       \/ TaskThrows(i, Err("allowance", i, 0, MsgNetwork))
    /\ UNCHANGED <<flow, apiError, plan, reqs, chain, transaction, attempt, approvals, mainLog>>

\* provider.getGasPrice() of the approval's overrides answers
ApprovalGasPrice(i) ==
    /\ pc = "joining"
    /\ task[i].pc = "gasPrice"
    /\ \/ /\ task' = [task EXCEPT ![i].pc = "approve"]
          /\ UNCHANGED <<pc, outcome, reconciled>>
       \/ TaskThrows(i, Err("gasPrice", i, 0, MsgNetwork))
    /\ UNCHANGED <<flow, apiError, plan, reqs, chain, transaction, attempt, approvals, mainLog>>

\* mutant: an entry whose token and spender another entry has approved already
\* in this run is skipped
MutApprovePopulateDedup(i) ==
    /\ pc = "joining"
    /\ task[i].pc = "approve"
    /\ IF \E a \in approvals :
             a.to = reqs[i].address /\ a.spender = reqs[i].allowanceTarget
       THEN /\ TaskReturns(i, [task[i] EXCEPT !.pc = "done", !.result = "false"])
            /\ UNCHANGED approvals
       ELSE /\ task' = [task EXCEPT ![i].pc = "send", ![i].nonce = PendingCount]
            /\ approvals' = approvals \cup {ApproveTx(i, PendingCount)}
            /\ UNCHANGED <<pc, outcome, reconciled>>
    /\ UNCHANGED <<flow, apiError, plan, reqs, chain, transaction, attempt, mainLog>>

\* tokenContract.approve(spender, MaxUint256, overrides) is called without a
\* nonce: the wallet (ethers 5 Signer.sendTransaction) asks the node for the
\* signer's pending transaction count, signs the approval with it, and hands the
\* raw transaction to the node.  Nothing orders this read against the other
\* tasks' reads and broadcasts.
ApprovePopulate(i) ==
    /\ pc = "joining"
    /\ task[i].pc = "approve"
    /\ \/ /\ task' = [task EXCEPT ![i].pc = "send", ![i].nonce = PendingCount]
          /\ approvals' = approvals \cup {ApproveTx(i, PendingCount)}
          /\ UNCHANGED <<pc, outcome, reconciled>>
       \/ /\ TaskThrows(i, Err("approve", i, 0, MsgNetwork))
          /\ UNCHANGED approvals
    /\ UNCHANGED <<flow, apiError, plan, reqs, chain, transaction, attempt, mainLog>>

\* mutant: the approval is not waited for, the task returns once it is broadcast
MutApproveSendNoWait(i) ==
    /\ pc = "joining"
    /\ task[i].pc = "send"
    /\ LET tx == ApproveTx(i, task[i].nonce) IN
       \/ /\ NodeVerdict(tx) = <<>>
          /\ pool' = pool \cup {tx}
          /\ TaskReturns(i, [task[i] EXCEPT !.pc = "done", !.result = "true"])
       \/ /\ NodeVerdict(tx) # <<>>
          /\ TaskThrows(i, Err("approve", i, 0, NodeVerdict(tx)))
          /\ UNCHANGED pool
    /\ UNCHANGED <<flow, apiError, plan, reqs, allowance, mined, receipts, transaction,
                   attempt, approvals, mainLog>>

\* the node answers the broadcast of the approval
ApproveSend(i) ==
    /\ pc = "joining"
    /\ task[i].pc = "send"
    /\ LET tx == ApproveTx(i, task[i].nonce) IN
       \/ /\ NodeVerdict(tx) = <<>>
          /\ pool' = pool \cup {tx}
          /\ task' = [task EXCEPT ![i].pc = "wait"]
          /\ UNCHANGED <<pc, outcome, reconciled>>
       \/ /\ NodeVerdict(tx) # <<>>
          /\ TaskThrows(i, Err("approve", i, 0, NodeVerdict(tx)))
          /\ UNCHANGED pool
       \/ /\ TaskThrows(i, Err("approve", i, 0, MsgFunds))
          /\ UNCHANGED pool
    /\ UNCHANGED <<flow, apiError, plan, reqs, allowance, mined, receipts, transaction, attempt,
                   approvals, mainLog>>

\* approveTx.wait(1): the approval is mined; a reverted one makes wait throw
ApproveWait(i) ==
    /\ pc = "joining"
    /\ task[i].pc = "wait"
    /\ \E r \in receipts :
        /\ r.tag = <<"approve", i>>
        /\ ConfirmationsOf(r) >= Confirmations
        /\ IF r.status = "success"
           THEN TaskReturns(i, [task[i] EXCEPT !.pc = "done", !.result = "true"])
           ELSE TaskThrows(i, Err("wait", i, 0, MsgTxFailed))
    /\ UNCHANGED <<flow, apiError, plan, reqs, chain, transaction, attempt, approvals, mainLog>>

checkAndSetAllowance(i) ==
    \/ AllowanceRead(i)
    \/ ApprovalGasPrice(i)
    \/ ApprovePopulate(i)
    \/ ApproveSend(i)
    \/ ApproveWait(i)

handleRequiredAllowances == \E i \in 1..Len(task) : checkAndSetAllowance(i)

(* --------------------- building the transaction ---------------------- *)
\* gasPrice of the object tx
TxGasPrice(networkPrice) ==
    IF flow = "single" /\ plan.gasPrice # 0 THEN plan.gasPrice ELSE networkPrice

\* provider.getGasPrice() of the object tx answers
GetGasPrice ==
    /\ pc = "gasPrice"
    /\ \/ /\ transaction' = [transaction EXCEPT !.gasPrice = NetworkGasPrice]
          /\ pc' = IF flow = "batch" THEN "estimateGas" ELSE "nonce"
          /\ UNCHANGED outcome
       \/ /\ Exit(Thrown(Err("gasPrice", 0, 0, MsgNetwork)))
          /\ UNCHANGED transaction
    /\ UNCHANGED <<flow, apiError, reconciled, plan, reqs, task, chain, attempt, approvals, mainLog>>

\* mutant: the buffered estimate is rounded up
MutWithBufferCeil(g) == (g * BufferMul + PercentDiv - 1) \div PercentDiv

\* gasLimit.mul(120).div(100)
WithBuffer(g) == (g * BufferMul) \div PercentDiv

\* what provider.estimateGas may answer
GasEstimates == 1..MaxGasEstimate \cup {100000}

\* what a failing provider.estimateGas reports: the simulation reverts, or the
\* node cannot be reached
EstimateMsgs == {MsgUnpredictable, MsgNetwork}

\* mutant: the estimation is not wrapped in try / catch
MutEstimateFailsRethrow(e) ==
    /\ estimate' = -1
    /\ Exit(Thrown(e))
    /\ UNCHANGED transaction

\* the catch block around provider.estimateGas: the error is logged, the default
\* limit is taken and the flow goes on (estimate' = -1 records the failure)
EstimateFails(e) ==
    /\ estimate' = -1
    /\ transaction' = [transaction EXCEPT !.gasLimit = DefaultGasLimit]
    /\ pc' = "nonce"
    /\ UNCHANGED outcome

\* provider.estimateGas({from, to, data, value}) answers
EstimateGas ==
    /\ pc = "estimateGas"
    /\ \/ \E g \in GasEstimates :
            /\ estimate' = g
            /\ transaction' = [transaction EXCEPT !.gasLimit = WithBuffer(g)]
            /\ pc' = "nonce"
            /\ UNCHANGED outcome
       \/ \E m \in EstimateMsgs : EstimateFails(Err("estimateGas", 0, 0, m))
    /\ UNCHANGED <<flow, apiError, reconciled, plan, reqs, task, chain, attempt, approvals, signCalls,
                   sendCalls, caught>>

\* the gas limit of the first attempt
FirstGasLimit == IF flow = "batch" THEN transaction.gasLimit ELSE FixedGasLimit

\* mutant: the nonce is read before the reconciliation, when none of the run's
\* transactions was mined
MutMainNonceStale == mined - Cardinality(receipts)

\* the nonce of the main transaction: the signer's transaction count in the
\* node's "latest" view, the transactions mined so far
MainNonce == mined

\* provider.getTransactionCount(wallet.address, "latest") answers
GetNonce ==
    /\ pc = "nonce"
    /\ \/ /\ transaction' = [transaction EXCEPT !.nonce = MainNonce]
          /\ pc' = "network"
          /\ UNCHANGED outcome
       \/ /\ Exit(Thrown(Err("nonce", 0, 0, MsgNetwork)))
          /\ UNCHANGED transaction
    /\ UNCHANGED <<flow, apiError, reconciled, plan, reqs, task, chain, attempt, approvals, mainLog>>

\* provider.getNetwork() answers: the object transaction is complete and
\* wallet.signTransaction is called
GetNetwork ==
    /\ pc = "network"
    /\ \/ /\ transaction' = [to |-> TxHandler,
                              data |-> IF plan.data THEN TxData ELSE Undefined,
                              value |-> 0,
                              gasLimit |-> FirstGasLimit,
                              gasPrice |-> TxGasPrice(transaction.gasPrice),
                              nonce |-> transaction.nonce, chainId |-> NetworkChainId]
          /\ pc' = "sign"
          /\ UNCHANGED outcome
       \/ /\ Exit(Thrown(Err("network", 0, 0, MsgNetwork)))
          /\ UNCHANGED transaction
    /\ UNCHANGED <<flow, apiError, reconciled, plan, reqs, task, chain, attempt, approvals, mainLog>>

(* ----------------------- sign, send, wait, retry ---------------------- *)
\* the gas limit the catch block sets for the retry
HigherLimit(gasLimit) ==
    IF flow = "batch" THEN (gasLimit * RetryMul) \div PercentDiv ELSE HigherGasLimit

\* mutant: the retry runs inside the try block again, so it is retried in turn
MutThrowsRetryAgain(e) ==
    /\ caught' = e
    /\ IF IsGasError(e.msg)
       THEN /\ transaction' = [transaction EXCEPT !.gasLimit = HigherLimit(@)]
            /\ attempt' = 2
            /\ pc' = "sign"
            /\ UNCHANGED outcome
       ELSE /\ Exit(Thrown(e))
            /\ UNCHANGED <<transaction, attempt>>

\* mutant: the catch block reads the nonce again for the retry
MutThrowsFreshNonce(e) ==
    IF attempt = 1
    THEN /\ caught' = e
         /\ IF IsGasError(e.msg)
            THEN /\ transaction' = [transaction EXCEPT !.gasLimit = HigherLimit(@),
                                                        !.nonce = mined]
                 /\ attempt' = 2
                 /\ pc' = "sign"
                 /\ UNCHANGED outcome
            ELSE /\ Exit(Thrown(e))
                 /\ UNCHANGED <<transaction, attempt>>
    ELSE /\ Exit(Thrown(e))
         /\ UNCHANGED <<transaction, attempt, caught>>

\* mutant: only a failure of the broadcast is retried
MutThrowsSendOnly(e) ==
    IF attempt = 1
    THEN /\ caught' = e
         /\ IF IsGasError(e.msg) /\ e.stage = "send"
            THEN /\ transaction' = [transaction EXCEPT !.gasLimit = HigherLimit(@)]
                 /\ attempt' = 2
                 /\ pc' = "sign"
                 /\ UNCHANGED outcome
            ELSE /\ Exit(Thrown(e))
                 /\ UNCHANGED <<transaction, attempt>>
    ELSE /\ Exit(Thrown(e))
         /\ UNCHANGED <<transaction, attempt, caught>>

\* An awaited call of the submission throws e.  Inside the try block the catch
\* block receives it: a gas-limit message raises transaction.gasLimit and calls
\* signTransaction again, any other message is rethrown.  Inside the catch block
\* nothing catches it.
Throws(e) ==
    IF attempt = 1
    THEN /\ caught' = e
         /\ IF IsGasError(e.msg)
            THEN /\ transaction' = [transaction EXCEPT !.gasLimit = HigherLimit(@)]
                 /\ attempt' = 2
                 /\ pc' = "sign"
                 /\ UNCHANGED outcome
            ELSE /\ Exit(Thrown(e))
                 /\ UNCHANGED <<transaction, attempt>>
    ELSE /\ Exit(Thrown(e))
         /\ UNCHANGED <<transaction, attempt, caught>>

\* wallet.signTransaction(transaction) answers
Sign ==
    /\ pc = "sign"
    /\ \/ /\ signCalls' = Append(signCalls, [attempt |-> attempt, tx |-> transaction, ok |-> TRUE])
          /\ pc' = "send"
          /\ UNCHANGED <<transaction, attempt, caught, outcome>>
       \/ \E m \in SubmitMsgs :
            /\ signCalls' = Append(signCalls, [attempt |-> attempt, tx |-> transaction, ok |-> FALSE])
            /\ Throws(Err("sign", 0, attempt, m))
    /\ UNCHANGED <<flow, apiError, reconciled, plan, reqs, task, chain, approvals, sendCalls, estimate>>

\* provider.sendTransaction(signedTx) answers
Send ==
    /\ pc = "send"
    /\ LET tx == MainTx(attempt) IN
       \/ /\ NodeVerdict(tx) = <<>>
          /\ pool' = pool \cup {tx}
          /\ sendCalls' = Append(sendCalls, [attempt |-> attempt, tx |-> transaction, ok |-> TRUE])
          /\ pc' = "wait"
          /\ UNCHANGED <<transaction, attempt, caught, outcome>>
       \/ \E m \in SubmitMsgs \cup {NodeVerdict(tx)} :
            /\ m # <<>>
            /\ sendCalls' = Append(sendCalls, [attempt |-> attempt, tx |-> transaction, ok |-> FALSE])
            /\ Throws(Err("send", 0, attempt, m))
            /\ UNCHANGED pool
    /\ UNCHANGED <<flow, apiError, reconciled, plan, reqs, task, allowance, mined, receipts, approvals,
                   signCalls, estimate>>

\* mutant: the wait resolves for a successful transaction only
MutWaitSuccessOnly ==
    /\ pc = "wait"
    /\ \E r \in receipts :
        /\ r.tag = <<"main", attempt>>
        /\ ConfirmationsOf(r) >= Confirmations
        /\ r.status = "success"
        /\ Exit(Returned(r.tag))
        /\ UNCHANGED <<transaction, attempt, caught>>
    /\ UNCHANGED <<flow, apiError, reconciled, plan, reqs, task, chain, approvals,
                   signCalls, sendCalls, estimate>>

\* txResponse.wait(1) answers: the receipt of a mined transaction is returned, a
\* reverted transaction makes wait throw
Wait ==
    /\ pc = "wait"
    /\ \E r \in receipts :
        /\ r.tag = <<"main", attempt>>
        /\ ConfirmationsOf(r) >= Confirmations
        /\ IF r.status = "success"
           THEN /\ Exit(Returned(r.tag))
                /\ UNCHANGED <<transaction, attempt, caught>>
           ELSE \E m \in SubmitMsgs : Throws(Err("wait", 0, attempt, m))
    /\ UNCHANGED <<flow, apiError, reconciled, plan, reqs, task, chain, approvals, signCalls, sendCalls,
                   estimate>>

Next ==
    \/ ServiceError
    \/ PlanReceived
    \/ QuoteReceived
    \/ AdapterQuoteReceived
    \/ handleRequiredAllowances
    \/ GetGasPrice
    \/ EstimateGas
    \/ GetNonce
    \/ GetNetwork
    \/ Sign
    \/ Send
    \/ Wait
    \/ Mine

Spec == Init /\ [][Next]_vars

\* Every call the program awaits is answered in the end, with a result or an
\* error, and a transaction the node has pooled is mined in the end.
FairSpec ==
    /\ Spec
    /\ WF_vars(ServiceError \/ PlanReceived \/ QuoteReceived \/ AdapterQuoteReceived)
    /\ WF_vars(handleRequiredAllowances)
    /\ WF_vars(GetGasPrice)
    /\ WF_vars(EstimateGas)
    /\ WF_vars(GetNonce)
    /\ WF_vars(GetNetwork)
    /\ WF_vars(Sign)
    /\ WF_vars(Send)
    /\ WF_vars(Wait)
    /\ WF_vars(Mine)

(* ============================= the claims ============================= *)
Ids == 1..Len(task)
ApprovalsOf(i) == { a \in approvals : a.tag = <<"approve", i>> }
\* task i has had its allowance read answered
HasRead(i) ==
    \/ task[i].pc \in {"gasPrice", "approve", "send", "wait", "done"}
    \/ task[i].pc = "failed" /\ task[i].error.stage \in {"gasPrice", "approve", "wait"}
ReadSufficient(i) == HasRead(i) /\ task[i].seen >= reqs[i].neededAllowance
ReadShort(i) == HasRead(i) /\ task[i].seen < reqs[i].neededAllowance
AllReturned == Ids # {} /\ \A i \in Ids : task[i].pc = "done"
\* the entry point failed in the reconciliation
ReconcileFailed ==
    outcome.kind = "error" /\ outcome.error.stage \in
        {"validate", "allowance", "gasPrice", "approve", "wait"} /\ outcome.error.entry > 0
\* the plan has a transaction and the entry point went past the plan's arrival
Started == pc # "request" /\ plan.transaction /\ plan.to /\ plan.data

\* C1: when every requirement's allowance read is at least its needed amount,
\* the reconciliation signs no approval transaction and completes (the entry
\* point goes on to build the transaction); with an empty or absent list of
\* requirements no approval transaction is signed either.
C1_SufficientAllowancesIssueNothing ==
    /\ (Ids # {} /\ \A i \in Ids : ReadSufficient(i))
          => /\ approvals = {}
             /\ \A t \in pool \cup receipts : t.tag[1] # "approve"
             /\ pc # "joining"
             /\ ~ReconcileFailed
    /\ (Started /\ flow = "batch" /\ (~plan.hasAllowances \/ plan.requiredAllowances = <<>>))
          => /\ approvals = {}
             /\ task = <<>>
             /\ ~ReconcileFailed

C1_Witness ==
    /\ flow = "batch"
    /\ Len(task) = MaxReqs
    /\ \A i \in Ids : ReadSufficient(i)
    /\ \E i \in Ids : task[i].seen = reqs[i].neededAllowance
    /\ pc = "sign"

\* C2: a requirement whose allowance read is below its needed amount gets
\* exactly one approval transaction, for its own token and spender and for the
\* maximum uint256, never the needed amount; no other requirement gets one; and
\* when exactly one requirement of the list was read short, exactly one approval
\* transaction is signed in all.
C2_OneMaxApprovalPerShortEntry ==
    /\ \A i \in Ids :
        /\ Cardinality(ApprovalsOf(i)) <= 1
        /\ \A a \in ApprovalsOf(i) :
            /\ ReadShort(i)
            /\ a.to = reqs[i].address
            /\ a.spender = reqs[i].allowanceTarget
            /\ a.amount = 16777215
            /\ a.amount # reqs[i].neededAllowance
        /\ (ReadShort(i) /\ task[i].pc \in {"send", "wait", "done"})
              => Cardinality(ApprovalsOf(i)) = 1
    /\ \A a \in approvals : a.tag[2] \in Ids
    /\ (AllReturned /\ Cardinality({ i \in Ids : ReadShort(i) }) = 1)
          => Cardinality(approvals) = 1

C2_Witness ==
    /\ Len(task) = MaxReqs
    /\ AllReturned
    /\ Cardinality({ i \in Ids : ReadShort(i) }) = 1
    /\ Cardinality(approvals) = 1
    /\ \E r \in receipts : r.tag[1] = "approve" /\ r.status = "success"

\* C3: with N requirements read short, N approval transactions are signed, and
\* their read / approve / confirm sequences interleave; when one of the
\* sequences fails, the reconciliation fails as a whole with that requirement's
\* error.
C3_AllShortEntriesApprovedOrWholeFails ==
    /\ AllReturned
          => Cardinality(approvals) = Cardinality({ i \in Ids : ReadShort(i) })
    /\ \A i \in Ids :
          (task[i].pc = "failed" /\ task[i].error.stage # "validate")
             => /\ pc = "exited"
                /\ outcome = Thrown(task[i].error)
                /\ outcome.error.entry = i
    /\ ReconcileFailed => task[outcome.error.entry].pc = "failed"

\* two approvals are in flight at once, then one of them fails
C3_Witness ==
    /\ Len(task) = MaxReqs
    /\ Cardinality(approvals) = MaxReqs
    /\ \E i, j \in Ids :
        /\ i # j
        /\ task[i].pc = "failed" /\ task[i].error.stage = "wait"
        /\ task[j].pc = "wait"
    /\ ReconcileFailed

\* C4: no two approval transactions of one reconciliation are signed with the
\* same nonce, in any interleaving of the approvals.
C4_ApprovalNoncesDistinct ==
    \A a, b \in approvals : a.tag # b.tag => a.nonce # b.nonce

\* C5: when an entry lacks its token address, its spender address or its needed
\* amount, the reconciliation fails with the incomplete-allowance-data error, and
\* neither an allowance read nor an approval transaction is issued for that entry.
Lacking(e) ==
    e.address = Undefined \/ e.allowanceTarget = Undefined \/ e.neededAllowance = 0
C5_MalformedEntryIsIncompleteDataError ==
    (flow = "batch" /\ \E i \in 1..Len(reqs) : Lacking(reqs[i]))
       => /\ pc = "exited"
          /\ outcome.kind = "error"
          /\ outcome.error.msg = <<"Incomplete", "allowance", "data">>
          /\ \A i \in 1..Len(reqs) :
                Lacking(reqs[i]) => ~HasRead(i) /\ task[i].pc # "allowance"
                                    /\ ApprovalsOf(i) = {}

\* a message with a gas-shortfall signature, as the claims word it
HasGasSignature(msg) ==
    \E k \in 1..Len(msg) :
        \/ msg[k] = "UNPREDICTABLE_GAS_LIMIT"
        \/ k < Len(msg) /\ msg[k] = "gas" /\ msg[k + 1] = "limit"
Calls(log, k) == { n \in 1..Len(log) : log[n].attempt = k }
MainTxs == { t \in pool \cup receipts : t.tag[1] = "main" }

\* C6: when the first broadcast fails with a gas-shortfall message, there is
\* exactly one retry: the transaction is signed and sent again with a changed
\* gasLimit and the same to, data, value, gasPrice, nonce and chainId (the nonce
\* is not read again), and a receipt returned is the second attempt's.
C6_GasSendFailureRetriedWithChangedLimit ==
    (caught.stage = "send" /\ HasGasSignature(caught.msg))
       => /\ attempt = 2
          /\ Len(signCalls) <= 2 /\ Len(sendCalls) <= 2
          /\ Cardinality(Calls(signCalls, 1)) = 1 /\ signCalls[1].ok
          /\ transaction.gasLimit # signCalls[1].tx.gasLimit
          /\ [transaction EXCEPT !.gasLimit = signCalls[1].tx.gasLimit] = signCalls[1].tx
          /\ \A n \in Calls(signCalls, 2) : signCalls[n].tx = transaction
          /\ \A n \in Calls(sendCalls, 2) : sendCalls[n].tx = transaction
          /\ pc # "sign" => Calls(signCalls, 2) # {}
          /\ outcome.kind = "receipt" => outcome.tag = <<"main", 2>>
          /\ (pc = "exited" /\ \E r \in receipts : r.tag = <<"main", 2>> /\ r.status = "success")
                => outcome = Returned(<<"main", 2>>)

\* C7: when the first attempt fails with a message without a gas-shortfall
\* signature, nothing is signed or sent a second time and the caller receives
\* the very error the first attempt raised.
C7_OtherFailureNotRetried ==
    (caught # NoError /\ ~HasGasSignature(caught.msg))
       => /\ attempt = 1
          /\ Len(signCalls) <= 1 /\ Len(sendCalls) <= 1
          /\ Cardinality(MainTxs) <= 1
          /\ caught.attempt = 1
          /\ pc = "exited"
          /\ outcome = Thrown(caught)

C7_Witness ==
    /\ caught.stage = "send"
    /\ caught.msg = <<"insufficient", "funds", "for", "gas">>
    /\ outcome = Thrown(caught)
    /\ Len(sendCalls) = 1

\* C8: a failure of the signing step is never retried, whatever its message:
\* when the first call of signTransaction fails there is no second call, and the
\* caller receives the signing error.
C8_SigningFailureNeverRetried ==
    (Len(signCalls) >= 1 /\ ~signCalls[1].ok)
       => /\ Len(signCalls) = 1
          /\ attempt = 1
          /\ pc = "exited"
          /\ outcome.kind = "error"
          /\ outcome.error.stage = "sign" /\ outcome.error.attempt = 1

\* C9: the main transaction is signed at most twice and sent at most twice; a
\* failure of the second attempt (signing, sending or confirmation), also one
\* with a gas-shortfall message, starts no third attempt and is the error the
\* caller receives.
C9_AtMostTwoAttempts ==
    /\ attempt \in {1, 2}
    /\ Len(signCalls) <= 2 /\ Len(sendCalls) <= 2
    /\ Cardinality(Calls(signCalls, 1)) <= 1 /\ Cardinality(Calls(signCalls, 2)) <= 1
    /\ Cardinality(Calls(sendCalls, 1)) <= 1 /\ Cardinality(Calls(sendCalls, 2)) <= 1
    /\ Cardinality(MainTxs) <= 2
    /\ \A n \in Calls(signCalls, 2) :
          ~signCalls[n].ok => pc = "exited" /\ outcome.kind = "error"
                              /\ outcome.error.stage = "sign" /\ outcome.error.attempt = 2
    /\ \A n \in Calls(sendCalls, 2) :
          ~sendCalls[n].ok => pc = "exited" /\ outcome.kind = "error"
                              /\ outcome.error.stage = "send" /\ outcome.error.attempt = 2
    /\ (attempt = 2 /\ pc = "exited")
          => \/ outcome = Returned(<<"main", 2>>)
             \/ outcome.kind = "error" /\ outcome.error.attempt = 2
    /\ (attempt = 2 /\ pc = "exited"
          /\ \E r \in receipts : r.tag = <<"main", 2>> /\ r.status = "reverted")
          => outcome.kind = "error" /\ outcome.error.stage = "wait"

\* the second attempt fails with a gas-shortfall message again
C9_Witness ==
    /\ attempt = 2
    /\ pc = "exited"
    /\ outcome.kind = "error"
    /\ HasGasSignature(outcome.error.msg)
    /\ Len(sendCalls) = 2

\* C10: in the batch flow the gas limit of the first attempt is floor(G * 120 /
\* 100) when estimateGas answers G, and 3000000, with no buffer, when it fails.
C10_BufferedEstimateOrFallback ==
    LET expected == IF estimate > 0 THEN estimate + (estimate \div 5) ELSE 3000000 IN
    (flow = "batch" /\ estimate # 0)
       => /\ attempt = 1 => transaction.gasLimit = expected
          /\ \A n \in Calls(signCalls, 1) : signCalls[n].tx.gasLimit = expected
          /\ \A t \in pool : t.tag = <<"main", 1>> => t.gasLimit = expected

\* an estimate the buffer truncates, signed and broadcast
C10_Witness ==
    /\ flow = "batch"
    /\ estimate > 0 /\ (estimate * 120) % 100 # 0
    /\ \E t \in pool : t.tag = <<"main", 1>> /\ t.gasLimit = estimate + (estimate \div 5)

\* the stages of the main transaction that follow the gas estimation
AfterEstimate == {"nonce", "network", "sign", "send", "wait"}

\* C11: a failure of the gas estimation is not fatal: the flow goes on to the
\* nonce read, signs and sends the first attempt with the fallback limit of
\* 3000000, and an error the caller receives comes from a later step, never
\* from the estimation.
C11_EstimationFailureNotFatal ==
    /\ outcome.error.stage # "estimateGas"
    /\ estimate = -1
          => /\ pc \in AfterEstimate \cup {"exited"}
             /\ pc = "exited" => \/ outcome.kind = "receipt"
                                 \/ outcome.kind = "error" /\ outcome.error.stage \in AfterEstimate
             /\ attempt = 1 => transaction.gasLimit = 3000000
             /\ \A n \in Calls(signCalls, 1) : signCalls[n].tx.gasLimit = 3000000
             /\ \A n \in Calls(sendCalls, 1) : sendCalls[n].tx.gasLimit = 3000000
             /\ \A t \in pool : t.tag = <<"main", 1>> => t.gasLimit = 3000000

\* after a failed estimation the first attempt is mined and its receipt returned
C11_Witness ==
    /\ estimate = -1
    /\ outcome = Returned(<<"main", 1>>)
    /\ Len(sendCalls) = 1 /\ sendCalls[1].ok /\ sendCalls[1].tx.gasLimit = 3000000

\* C12: in both flows the gas limit of the first attempt comes from an attempt
\* at provider.estimateGas: before the first signing the estimation has been
\* called, and a static limit (3000000, 500000) is signed only after the
\* estimation failed.
C12_EstimationAttemptedFirst ==
    \A n \in Calls(signCalls, 1) :
        /\ estimate # 0
        /\ signCalls[n].tx.gasLimit \in {3000000, 500000} => estimate = -1

\* the service answered with a plan or a quote
PlanArrived == pc # "request" /\ apiError = NoApiError
\* no request has gone to the node and nothing was signed
NothingPerformed ==
    /\ \A i \in Ids : ~HasRead(i) /\ task[i].pc # "allowance"
    /\ approvals = {}
    /\ pool = {} /\ receipts = {}
    /\ estimate = 0
    /\ transaction.gasPrice \in {0, plan.gasPrice} /\ transaction.nonce = 0
    /\ transaction.chainId = 0
    /\ signCalls = <<>> /\ sendCalls = <<>>

\* C13: when the plan or quote that arrived has no transaction payload (its
\* destination or its call data is missing), the execution has ended and no
\* allowance was read, no approval signed, no gas price, gas estimate, nonce or
\* network read for the main transaction, and nothing signed or sent.
C13_MissingPayloadAbortsBeforeAnything ==
    (PlanArrived /\ (~plan.transaction \/ ~plan.to \/ ~plan.data))
       => /\ pc = "exited"
          /\ outcome.kind \in {"error", "undefined"}
          /\ NothingPerformed

\* C14: the entry point of the batch and of the single flow settles in one of
\* two ways, with the receipt of a mined, successful transaction or with an
\* error; a plan without txHandler / txData (a quote without transaction.to)
\* gives an error, never a return without a receipt.
C14_ReceiptOrError ==
    (flow \in {"batch", "single"} /\ pc = "exited")
       => /\ outcome.kind \in {"receipt", "error"}
          /\ outcome.kind = "receipt"
                => \E r \in receipts : r.tag = outcome.tag /\ r.status = "success"
          /\ (PlanArrived /\ (~plan.transaction \/ ~plan.to)) => outcome.kind = "error"

\* a step of the main transaction has been taken
MainStarted ==
    \/ pc \in {"gasPrice", "estimateGas", "nonce", "network", "sign", "send", "wait"}
    \/ estimate # 0
    \/ signCalls # <<>> \/ sendCalls # <<>>
    \/ MainTxs # {}

\* C15: the main transaction's gas-price read, gas estimation, nonce read,
\* signing and broadcast happen only after every task of the reconciliation has
\* returned and every approval it signed is mined with success; the batch flow
\* signs only after the estimation; and when the reconciliation fails the main
\* transaction is never built, signed or sent.
C15_ReconcileThenEstimateThenSubmit ==
    /\ MainStarted
          => /\ \A i \in Ids : task[i].pc = "done"
             /\ \A a \in approvals :
                   /\ a \notin pool
                   /\ \E r \in receipts :
                         r.tag = a.tag /\ r.nonce = a.nonce /\ r.status = "success"
             /\ ~ReconcileFailed
    /\ (flow = "batch" /\ (pc \in {"sign", "send", "wait"} \/ signCalls # <<>>))
          => estimate # 0
    /\ ReconcileFailed
          => /\ ~MainStarted
             /\ transaction = NoTransaction

\* both approvals of a list are mined before the main transaction is broadcast
C15_Witness ==
    /\ Len(task) = MaxReqs
    /\ Cardinality(approvals) = MaxReqs
    /\ \E t \in pool : t.tag = <<"main", 1>>
    /\ estimate # 0

\* the calls of a log for attempt k that succeeded
OkCalls(log, k) == { n \in Calls(log, k) : log[n].ok }

\* C16: a receipt is returned only for an attempt that was signed, then
\* broadcast, then mined with success and waited for with one confirmation: every
\* broadcast was signed before, every pooled or mined main transaction was
\* broadcast before, the wait begins only after the broadcast, and the receipt
\* returned is the mined receipt of the attempt that was waited for.  A task of
\* the reconciliation that approved returns only once its approval is mined with
\* success.
C16_ReceiptOnlyAfterSignSendConfirm ==
    /\ \A k \in {1, 2} :
          /\ Calls(sendCalls, k) # {} => OkCalls(signCalls, k) # {}
          /\ (\E t \in pool \cup receipts : t.tag = <<"main", k>>)
                => OkCalls(sendCalls, k) # {}
    /\ pc = "wait" => OkCalls(sendCalls, attempt) # {}
    /\ outcome.kind = "receipt"
          => /\ outcome.tag = <<"main", attempt>>
             /\ OkCalls(signCalls, attempt) # {} /\ OkCalls(sendCalls, attempt) # {}
             /\ \E r \in receipts :
                   /\ r.tag = outcome.tag /\ r.status = "success"
                   /\ r.nonce = transaction.nonce
                   /\ mined - r.block + 1 >= 1
    /\ \A i \in Ids :
          (task[i].pc = "done" /\ ReadShort(i))
             => /\ task[i].result = "true"
                /\ \E r \in receipts :
                      /\ r.tag = <<"approve", i>> /\ r.status = "success"
                      /\ mined - r.block + 1 >= 1

\* the retried attempt is mined and its receipt returned, after an approval
C16_Witness ==
    /\ outcome = Returned(<<"main", 2>>)
    /\ \E i \in Ids : task[i].pc = "done" /\ ReadShort(i)
    /\ Len(sendCalls) = 2

\* C17: in both flows the gas price of the transaction that is signed and sent
\* is the gas price the plan or quote carries when it carries one, and the gas
\* price the node reports when it carries none.
C17_GasPriceHintOrNetwork ==
    \A n \in 1..Len(signCalls) :
        /\ plan.gasPrice # 0 => signCalls[n].tx.gasPrice = plan.gasPrice
        /\ plan.gasPrice = 0 => signCalls[n].tx.gasPrice = 30

\* C18: the reconciliation resolves with the number of approval transactions it
\* issued: k for a list with k entries read short whose approvals were all
\* mined, 0 when no approval was needed.
C18_ReconcileReturnsApprovalCount ==
    reconciled.kind # "pending"
       => /\ reconciled.kind = "number"
          /\ reconciled.value = Cardinality({ i \in Ids : ReadShort(i) })
          /\ reconciled.value = Cardinality(approvals)

\* C19: when the request to the plan / quote service fails, the flow fails with
\* an error whose message carries the body of the service's response, or the
\* transport's message when there is no response or no body; and no allowance
\* is read, no approval, gas estimation, signing or broadcast is performed.
C19_ServiceErrorCarriesBody ==
    /\ outcome.error.stage = "service" <=> apiError # NoApiError
    /\ apiError # NoApiError
          => /\ pc = "exited"
             /\ outcome.kind = "error"
             /\ outcome.error.msg =
                   <<"31Third", "API", "error">> \o
                      (IF apiError.data # <<>> THEN apiError.data ELSE apiError.message)
             /\ plan = NoPlan /\ task = <<>> /\ reqs = <<>>
             /\ NothingPerformed
             /\ transaction = NoTransaction

\* the service rejects the request and answers with a body
C19_Witness ==
    /\ flow \in {"batch", "single"}
    /\ apiError.response /\ apiError.data = <<"invalid", "api", "key">>
    /\ outcome.kind = "error"
    /\ outcome.error.msg = <<"31Third", "API", "error", "invalid", "api", "key">>

\* the entry point failed for good
FatalFailure == pc = "exited" /\ outcome.kind = "error"

\* C20: nothing is rolled back.  Every approval the code signs or broadcasts
\* grants the maximum, none lowers or revokes; an approval mined with success
\* has its allowance granted and keeps it; an approval that was broadcast stays
\* pooled until it is mined; no allowance ever decreases; and after a fatal
\* failure the code signs and broadcasts nothing more.
C20_NoRollback ==
    /\ [](/\ \A a \in approvals : a.amount = 16777215
          /\ \A t \in pool :
                t.tag[1] = "approve" => t.amount = 16777215 /\ t \in approvals
          /\ \A r \in receipts :
                (r.tag[1] = "approve" /\ r.status = "success")
                   => allowance[<<reqs[r.tag[2]].address,
                                  reqs[r.tag[2]].allowanceTarget>>] = 16777215)
    /\ [][/\ \A t \in pool :
                t.tag[1] = "approve"
                   => \/ t \in pool'
                      \/ \E r \in receipts' : r.tag = t.tag /\ r.nonce = t.nonce
           /\ \A k \in DOMAIN allowance : allowance'[k] >= allowance[k]
           /\ receipts \subseteq receipts'
           /\ FatalFailure
                 => /\ approvals' = approvals
                    /\ signCalls' = signCalls /\ sendCalls' = sendCalls
                    /\ pool' \subseteq pool
                    /\ FatalFailure']_vars

\* a sibling approval failed, and the approval that was already broadcast is
\* mined afterwards and its allowance granted
C20_Witness ==
    /\ ReconcileFailed
    /\ \E j \in Ids :
          /\ task[j].pc = "wait"
          /\ \E r \in receipts : r.tag = <<"approve", j>> /\ r.status = "success"
          /\ allowance[<<reqs[j].address, reqs[j].allowanceTarget>>] = 16777215

\* C21: the gas limit of the retried attempt is strictly greater than the gas
\* limit of the first attempt: in the batch flow floor(limit * 150 / 100) of a
\* first limit that is floor(G * 120 / 100) or 3000000, in the single flow
\* 750000 against 500000.
C21_RetryLimitStrictlyGreater ==
    attempt = 2
       => \A n \in Calls(signCalls, 1) :
             /\ transaction.gasLimit > signCalls[n].tx.gasLimit
             /\ flow = "batch"
                   => transaction.gasLimit = (signCalls[n].tx.gasLimit * 150) \div 100
             /\ flow = "single"
                   => signCalls[n].tx.gasLimit = 500000 /\ transaction.gasLimit = 750000

\* C22: once the reconciliation has completed and the main transaction is being
\* built, signed or sent, the on-chain allowance of every requirement's token
\* for its spender is at least the requirement's needed amount (nobody but the
\* program changes allowances).
C22_AllowancesCoverNeedsWhenBuilt ==
    MainStarted
       => \A i \in 1..Len(reqs) :
             allowance[<<reqs[i].address, reqs[i].allowanceTarget>>]
                >= reqs[i].neededAllowance

\* one requirement was short and approved, another was sufficient as read
C22_Witness ==
    /\ Len(reqs) = MaxReqs
    /\ \E i, j \in Ids :
          /\ ReadShort(i) /\ task[i].result = "true"
          /\ ReadSufficient(j) /\ task[j].seen = reqs[j].neededAllowance
    /\ pc = "sign"

\* the nonce of the main transaction has been read
NonceRead == pc \in {"network", "sign", "send", "wait"} \/ signCalls # <<>>

\* C23: the nonce of the main transaction is read once, after every approval of
\* the execution is mined: it is the count of the signer's mined transactions,
\* strictly greater than the nonce of every approval mined in the execution and
\* different from the nonce of every approval signed, and every signing and
\* broadcast of the main transaction, the retry's too, carries it.
C23_MainNonceAfterApprovals ==
    (flow \in {"batch", "single"} /\ NonceRead)
       => /\ \A r \in receipts : r.tag[1] = "approve" => r.nonce < transaction.nonce
          /\ \A a \in approvals : a.nonce # transaction.nonce
          /\ transaction.nonce = Cardinality({ r \in receipts : r.tag[1] = "approve" })
          /\ \A n \in 1..Len(signCalls) : signCalls[n].tx.nonce = transaction.nonce
          /\ \A n \in 1..Len(sendCalls) : sendCalls[n].tx.nonce = transaction.nonce
          /\ \A t \in MainTxs : t.nonce = transaction.nonce

\* two approvals are mined with nonces 0 and 1, the main transaction is pooled
C23_Witness ==
    /\ Cardinality({ r \in receipts : r.tag[1] = "approve" }) = MaxReqs
    /\ \E t \in pool : t.tag[1] = "main" /\ t.nonce = MaxReqs

MainReceipts == { r \in receipts : r.tag[1] = "main" }

\* C24: the first attempt and the retry carry the same nonce, so at most one
\* main transaction of an execution is ever mined (and at most one with
\* success), and the two are never pooled together, whether the retry is
\* broadcast after the first attempt was refused or after it was mined.
C24_AtMostOneMainIncluded ==
    /\ Cardinality(MainReceipts) <= 1
    /\ Cardinality({ t \in pool : t.tag[1] = "main" }) <= 1
    /\ \A t, u \in MainTxs : t.nonce = u.nonce
    /\ \A n, m \in 1..Len(signCalls) : signCalls[n].tx.nonce = signCalls[m].tx.nonce
    /\ \A r \in MainReceipts : \A t \in pool : t.tag[1] = "main" => t.nonce # r.nonce

\* the first attempt is mined, its wait fails with a gas-limit message, and the
\* retry is signed and handed to the node
C24_Witness ==
    /\ \E r \in MainReceipts : r.tag = <<"main", 1>>
    /\ caught.stage = "wait"
    /\ Len(sendCalls) = 2 /\ ~sendCalls[2].ok
    /\ Cardinality(MainReceipts) = 1

\* entry i of the list is well-formed / the list holds a malformed entry
WellFormed(i) == reqs[i].token /\ ~Lacking(reqs[i])
MalformedPresent == flow = "batch" /\ \E i \in 1..Len(reqs) : ~WellFormed(i)
\* the on-chain allowance of entry i is below its needed amount
UnderApproved(i) ==
    allowance[<<reqs[i].address, reqs[i].allowanceTarget>>] < reqs[i].neededAllowance

\* C25 as stated: with a malformed entry in the list, the allowance read of a
\* well-formed entry is started and its sequence can go on (the read can be
\* answered, the approval signed, broadcast and mined) although the
\* reconciliation fails.
C25_SiblingsOfMalformedEntryGoOn ==
    MalformedPresent
       => \A i \in Ids :
             WellFormed(i)
                => /\ task[i].pc \notin {"idle", "failed"}
                   /\ task[i].pc = "allowance" => ENABLED AllowanceRead(i)

\* C25 as amended: validation is per entry, inside the fan-out: with a
\* malformed entry in the list checkAndSetAllowance is still called for every
\* well-formed entry (its allowance read is started), the reconciliation fails
\* with the error of the first malformed entry and the execution ends there, so
\* no read is answered and no approval is signed, broadcast or mined.
C25_SiblingsStartedThenExecutionEnds ==
    MalformedPresent
       => /\ \A i \in Ids :
                IF WellFormed(i)
                THEN task[i].pc = "allowance" /\ ~HasRead(i)
                ELSE task[i].pc = "failed" /\ task[i].error.stage = "validate"
          /\ pc = "exited"
          /\ ReconcileFailed
          /\ ~WellFormed(outcome.error.entry)
          /\ \A j \in 1..(outcome.error.entry - 1) : WellFormed(j)
          /\ approvals = {}
          /\ pool = {} /\ receipts = {}

\* a malformed entry first, then a well-formed entry whose allowance is short
C25_Witness ==
    /\ MalformedPresent
    /\ Len(reqs) = MaxReqs
    /\ ~WellFormed(1)
    /\ WellFormed(MaxReqs) /\ UnderApproved(MaxReqs)
    /\ task[MaxReqs].pc = "allowance"
    /\ pc = "exited"

\* C26: whether the first attempt is retried depends on the message of its
\* error alone, not on the step that raised it (signing, broadcast or
\* confirmation wait).  A gas-shortfall message raised by the confirmation
\* wait, when the first transaction was broadcast already, starts the retry
\* too: the transaction is signed again and handed to the node with the nonce
\* of the first.
C26_RetryDependsOnMessageOnly ==
    /\ caught # NoError
          => /\ caught.stage \in {"sign", "send", "wait"}
             /\ attempt = 2 <=> HasGasSignature(caught.msg)
    /\ (caught.stage = "wait" /\ HasGasSignature(caught.msg))
          => /\ OkCalls(sendCalls, 1) # {}
             /\ \E r \in receipts : r.tag = <<"main", 1>>
             /\ pc \in {"sign", "send", "wait", "exited"}
             /\ pc # "sign" => Calls(signCalls, 2) # {}
             /\ (pc \notin {"sign", "send"} /\ OkCalls(signCalls, 2) # {})
                   => Calls(sendCalls, 2) # {}
             /\ \A n \in Calls(signCalls, 2) :
                   signCalls[n].tx.nonce = signCalls[1].tx.nonce
             /\ \A n \in Calls(sendCalls, 2) :
                   sendCalls[n].tx.nonce = sendCalls[1].tx.nonce
             /\ outcome.kind = "error" => outcome.error.attempt = 2

\* the first attempt was broadcast and mined, its wait failed with a gas-limit
\* message, and a second transaction with the same nonce was signed and sent
C26_Witness ==
    /\ caught.stage = "wait"
    /\ caught.msg = <<"exceeds", "block", "gas", "limit">>
    /\ Len(signCalls) = 2 /\ signCalls[2].ok
    /\ Len(sendCalls) = 2 /\ sendCalls[1].ok
    /\ sendCalls[2].tx.nonce = sendCalls[1].tx.nonce

\* approve() of entry i has been called and has signed
PastApprove(i) ==
    \/ task[i].pc \in {"send", "wait"}
    \/ task[i].pc = "done" /\ task[i].result = "true"
    \/ task[i].pc = "failed" /\ task[i].error.stage = "wait"
SameTarget(i, j) ==
    reqs[i].address = reqs[j].address /\ reqs[i].allowanceTarget = reqs[j].allowanceTarget

\* C27: an entry gets at most one approval transaction in an execution (none is
\* signed again after a failure); entries are not de-duplicated: of two entries
\* with the same token and spender that were both read short, each signs its own
\* approval; and the approval transactions signed, pooled or mined are never
\* more than the entries.
C27_OneApprovalPerEntryNoDedup ==
    /\ \A i \in Ids : Cardinality(ApprovalsOf(i)) <= 1
    /\ Cardinality(approvals) <= Len(reqs)
    /\ Cardinality({ t \in pool \cup receipts : t.tag[1] = "approve" }) <= Len(reqs)
    /\ \A i \in Ids :
          (ReadShort(i) /\ task[i].pc \in {"send", "wait", "done"})
             => \E a \in approvals : a.tag = <<"approve", i>>
    /\ \A i, j \in Ids :
          (i # j /\ SameTarget(i, j) /\ PastApprove(i) /\ PastApprove(j))
             => \E a, b \in approvals :
                   /\ a.tag = <<"approve", i>> /\ b.tag = <<"approve", j>>
                   /\ a # b
                   /\ a.to = b.to /\ a.spender = b.spender

\* two entries name the same token and spender and both approvals are mined
C27_Witness ==
    \E i, j \in Ids :
        /\ i # j /\ SameTarget(i, j)
        /\ task[i].pc = "done" /\ task[j].pc = "done"
        /\ task[i].result = "true" /\ task[j].result = "true"
        /\ Cardinality({ r \in receipts : r.tag[1] = "approve" /\ r.status = "success" }) >= 2

\* the program is suspended on a confirmation wait whose transaction is not mined
BlockedOnWait ==
    \/ pc = "wait" /\ ~\E r \in receipts : r.tag = <<"main", attempt>>
    \/ /\ pc = "joining"
       /\ \A i \in Ids : task[i].pc \in {"wait", "done"}
       /\ \A i \in Ids : task[i].pc = "wait" => ~\E r \in receipts : r.tag = <<"approve", i>>
\* a step of the program, as opposed to the chain's
ProgramStep ==
    \/ ServiceError \/ PlanReceived \/ QuoteReceived \/ AdapterQuoteReceived
    \/ handleRequiredAllowances
    \/ GetGasPrice \/ EstimateGas \/ GetNonce \/ GetNetwork
    \/ Sign \/ Send \/ Wait

\* C28: when every awaited call is answered in the end, every execution ends
\* with a terminal outcome (a receipt, an error, the return without a
\* transaction, or the adapter's transaction object); and no step has a
\* timeout: while a confirmation wait is unanswered the program can take no
\* step, so it stays blocked for as long as the wait does.
C28_EventuallyTerminal ==
    /\ <>(pc = "exited" /\ outcome.kind \in {"receipt", "error", "undefined", "transaction"})
    /\ [](BlockedOnWait => ~ENABLED ProgramStep)
    /\ [](pc = "exited" => ~ENABLED ProgramStep)

\* the main transaction is pooled and the program waits for its confirmation
C28_Witness ==
    /\ pc = "wait"
    /\ \E t \in pool : t.tag = <<"main", attempt>>
    /\ BlockedOnWait
    /\ ~ENABLED Wait

====
